---- MODULE Spec2Model ----
(***************************************************************************)
(* The vga_ball stack: the kernel driver (vga_ball.c: register file,       *)
(* in-memory mirror, ioctl dispatch, probe) and the userspace controller   *)
(* (Dino/hello.c: startup, poll/read loop, escape-sequence decoder and     *)
(* the blocking jump/duck animation).                                      *)
(*                                                                         *)
(*   SpecDriver    an arbitrary client issuing ioctls to the driver        *)
(*   SpecLife      probe and remove step by step, ioctls in between        *)
(*   SpecAnim      one call of animate_movement on drawn (start_y,         *)
(*                 target_y)                                               *)
(*   SpecAnimLive  SpecAnim and the return to main, under fairness         *)
(*   Spec          the controller's main() running on top of the driver    *)
(*   SpecLive      Spec while poll() and read() succeed, under fairness    *)
(***************************************************************************)
EXTENDS Integers, Sequences, FiniteSets, TLC

VARIABLES
    \* ---- driver (vga_ball.c) ----
    dev,            \* struct vga_ball_dev: virtbase, background, position
    regs,           \* the hardware register file, by byte offset
    misc,           \* TRUE once misc_register() has published /dev/vga_ball
    kpc,            \* how far vga_ball_probe or vga_ball_remove has run
    iolog,          \* what the most recent ioctl/probe did, in program order
    lastCall,       \* the most recent ioctl as its caller saw it
    okPos,          \* argument of the most recent WRITE_POS that returned 0
    okBg,           \* argument of the most recent WRITE_BACKGROUND that returned 0
    \* ---- controller (hello.c) ----
    pc,             \* position of main() / animate_movement()
    vga_ball_fd,    \* -1 or the open descriptor
    pos,            \* main's vga_ball_pos_t pos
    base_y,         \* main's base_y
    animation_in_progress,
    buf, n, i,      \* read buffer, bytes read, decode index (0-based)
    start_y, target_y, start_time, elapsed_time, current_y,  \* animate_movement
    exit_status,    \* main's return value, -1 while running
    \* ---- environment ----
    now,            \* CLOCK_MONOTONIC, in ticks
    ttyq,           \* bytes typed and not yet read, each tagged with `late`
    typed,          \* number of keys typed so far
    faults,         \* number of user-copy faults injected so far
    evlog,          \* decoder steps taken on the current buffer
    carry           \* escape prefix that ended the previous read, if any

vars == <<dev, regs, misc, kpc, iolog, lastCall, okPos, okBg,
          pc, vga_ball_fd, pos, base_y, animation_in_progress, buf, n, i,
          start_y, target_y, start_time, elapsed_time, current_y, exit_status,
          now, ttyq, typed, faults, evlog, carry>>

drvVars == <<dev, regs, misc, kpc, iolog, lastCall, okPos, okBg>>
ctlVars == <<pc, vga_ball_fd, pos, base_y, animation_in_progress, buf, n, i,
             exit_status, evlog, carry>>
animVars == <<start_y, target_y, start_time, elapsed_time, current_y>>
envVars == <<now, ttyq, typed, faults>>

(***************************************************************************)
(* Bounds of the model.                                                    *)
(***************************************************************************)
MaxFaults == 1          \* user-copy faults injected in one run
MaxKeys == 2            \* keys typed in one run
TicksPerHalf == 3       \* clock ticks in half of animation_duration
MaxOver == 1            \* ticks the clock may run past the end of an animation

(***************************************************************************)
(* Driver: constants.                                                      *)
(***************************************************************************)
BALL_XCOOR == 0
BALL_YCOOR == 4
BG_RED == 8
BG_GREEN == 12
BG_BLUE == 16
RegOffsets == {BALL_XCOOR, BALL_YCOOR, BG_RED, BG_GREEN, BG_BLUE}

EACCES == 13
EINVAL == 22

VGA_BALL_WRITE_BACKGROUND == "VGA_BALL_WRITE_BACKGROUND"
VGA_BALL_READ_BACKGROUND == "VGA_BALL_READ_BACKGROUND"
VGA_BALL_WRITE_POS == "VGA_BALL_WRITE_POS"
VGA_BALL_READ_POS == "VGA_BALL_READ_POS"
DefinedCmds == {VGA_BALL_WRITE_BACKGROUND, VGA_BALL_READ_BACKGROUND,
                VGA_BALL_WRITE_POS, VGA_BALL_READ_POS}
\* command codes no case of the switch matches
OtherCmds == {"CMD_0", "CMD_5"}

\* a 32-bit register word, as its two unsigned 16-bit halves; u32(v) is the
\* conversion of the C integer v to the u32 that iowrite32 takes
u32(v) == [hi |-> (v \div 65536) % 65536, lo |-> v % 65536]

\* a value that is not a payload: an unused argument, nothing copied out
NoVal == [none |-> TRUE]

Color(r, g, b) == [red |-> r, green |-> g, blue |-> b]
Position(x, y) == [xcoor |-> x, ycoor |-> y]

beige == Color(249, 228, 183)
black == Color(0, 0, 0)

(***************************************************************************)
(* Driver: the kernel-side state as one value k = [dev, regs, iolog], so   *)
(* that the statements of a handler compose in program order.              *)
(***************************************************************************)
LogEntry(op, off, val) == [op |-> op, off |-> off, val |-> val]

\* iowrite32(value, virtbase + off): the register takes the value as a u32
iowrite32(k, value, off) ==
    [k EXCEPT !.regs[off] = u32(value),
              !.iolog = Append(@, LogEntry("iowrite32", off, u32(value)))]

\* the mirror left as it was
store_background_skipped(k, background) == k

\* dev.background = *background
store_background(k, background) ==
    [k EXCEPT !.dev.background = background,
              !.iolog = Append(@, LogEntry("dev.background", -1, u32(0)))]

\* the mirror left as it was
store_position_skipped(k, bpos) == k

\* dev.position = bpos
store_position(k, bpos) ==
    [k EXCEPT !.dev.position = bpos,
              !.iolog = Append(@, LogEntry("dev.position", -1, u32(0)))]

\* write_background with the green component sent to the Y register
write_background_wrong_offset(k, background) ==
    LET k1 == iowrite32(k, background.red, BG_RED)
        k2 == iowrite32(k1, background.green, BALL_YCOOR)
        k3 == iowrite32(k2, background.blue, BG_BLUE)
    IN  store_background(k3, background)

write_background(k, background) ==
    LET k1 == iowrite32(k, background.red, BG_RED)
        k2 == iowrite32(k1, background.green, BG_GREEN)
        k3 == iowrite32(k2, background.blue, BG_BLUE)
    IN  store_background(k3, background)

\* the Y register written before the X register
write_pos_y_first(k, p) ==
    LET k1 == iowrite32(k, p.ycoor, BALL_YCOOR)
    IN  iowrite32(k1, p.xcoor, BALL_XCOOR)

write_pos(k, p) ==
    LET k1 == iowrite32(k, p.xcoor, BALL_XCOOR)
    IN  iowrite32(k1, p.ycoor, BALL_YCOOR)

IoctlResult(k, ret, out) == [k |-> k, ret |-> ret, out |-> out]

\* the cases of vga_ball_ioctl's switch; `fault` is copy_from_user /
\* copy_to_user returning non-zero
ioctl_write_background(k, arg, fault) ==
    IF fault THEN IoctlResult(k, -EACCES, NoVal)
    ELSE IoctlResult(write_background(k, arg), 0, NoVal)

ioctl_read_background(k, fault) ==
    IF fault THEN IoctlResult(k, -EACCES, NoVal)
    ELSE IoctlResult(k, 0, k.dev.background)

\* the registers written before the result of copy_from_user is looked at
ioctl_write_pos_unchecked(k, arg, fault) ==
    IF fault THEN IoctlResult(write_pos(k, arg), -EACCES, NoVal)
    ELSE IoctlResult(store_position(write_pos(k, arg), arg), 0, NoVal)

ioctl_write_pos(k, arg, fault) ==
    IF fault THEN IoctlResult(k, -EACCES, NoVal)
    ELSE IoctlResult(store_position(write_pos(k, arg), arg), 0, NoVal)

ioctl_read_pos(k, fault) ==
    IF fault THEN IoctlResult(k, -EACCES, NoVal)
    ELSE IoctlResult(k, 0, k.dev.position)

\* the default case falling out of the switch with status 0
ioctl_default_break(k) == IoctlResult(k, 0, NoVal)

ioctl_default(k) == IoctlResult(k, -EINVAL, NoVal)

\* vga_ball_ioctl(f, cmd, arg)
vga_ball_ioctl(k0, cmd, arg, fault) ==
    LET k == [k0 EXCEPT !.iolog = <<>>]
    IN  CASE cmd = VGA_BALL_WRITE_BACKGROUND -> ioctl_write_background(k, arg, fault)
          [] cmd = VGA_BALL_READ_BACKGROUND -> ioctl_read_background(k, fault)
          [] cmd = VGA_BALL_WRITE_POS -> ioctl_write_pos(k, arg, fault)
          [] cmd = VGA_BALL_READ_POS -> ioctl_read_pos(k, fault)
          [] OTHER -> ioctl_default(k)

\* vga_ball_probe(pdev); `outcome` is which of its calls fails, if any
ProbeOutcomes == {"ok", "misc_register", "of_address_to_resource",
                  "request_mem_region", "of_iomap"}

\* probe that also sends the initial position to the X and Y registers
vga_ball_probe_writes_pos(k0, outcome) ==
    LET k == [k0 EXCEPT !.iolog = <<>>]
    IN  IF outcome = "ok"
        THEN LET k1 == [k EXCEPT !.dev.virtbase = "mapped"]
                 k2 == write_background(k1, beige)
                 k3 == write_pos(k2, Position(320, 240))
             IN  [k3 EXCEPT !.dev.position = Position(320, 240)]
        ELSE k

vga_ball_probe(k0, outcome) ==
    LET k == [k0 EXCEPT !.iolog = <<>>]
    IN  IF outcome = "ok"
        THEN LET k1 == [k EXCEPT !.dev.virtbase = "mapped"]
                 k2 == write_background(k1, beige)
             IN  [k2 EXCEPT !.dev.position = Position(320, 240)]
        ELSE k

\* the kernel-side state held in the variables
KState == [dev |-> dev, regs |-> regs, iolog |-> iolog]

\* static storage before probe; the register file at hardware reset
DevZero == [virtbase |-> "NULL", background |-> Color(0, 0, 0),
            position |-> Position(0, 0)]
HwResetBg == {0, 255}
RegsReset(c) == [o \in RegOffsets |->
                   u32(IF o = BALL_XCOOR THEN 320 ELSE IF o = BALL_YCOOR THEN 240 ELSE c)]

\* the bookkeeping of one ioctl call: what the caller passed and got back
\* stands for the result of a call that never returned
NoReturn == -1000

CallRecord(cmd, arg, r) ==
    [cmd |-> cmd, arg |-> arg, ret |-> r.ret, out |-> r.out]

\* the whole effect of one ioctl(fd, cmd, arg) on the driver variables
\* the entries of log that are register writes
RegWrites(log) == {j \in 1..Len(log) : log[j].op = "iowrite32"}

\* log with its register writes marked as having landed outside the device
Strayed(log) ==
    [j \in 1..Len(log) |->
       IF j \in RegWrites(log) THEN [log[j] EXCEPT !.op = "stray"] ELSE log[j]]

\* one call of vga_ball_ioctl.  iowrite32 goes through dev.virtbase, which
\* the call does not check: while the registers are mapped the writes reach
\* them; through NULL or an address no longer mapped the first write faults
\* and the call is killed there (oops); when the range of the undone
\* mapping has been taken over by another, the writes land outside the
\* device (stray) and the call goes on
DoIoctl(cmd, arg, fault) ==
    LET r == vga_ball_ioctl(KState, cmd, arg, fault)
    IN  IF dev.virtbase = "mapped" \/ RegWrites(r.k.iolog) = {}
        THEN /\ dev' = r.k.dev
             /\ regs' = r.k.regs
             /\ iolog' = r.k.iolog
             /\ lastCall' = CallRecord(cmd, arg, r)
             /\ okPos' = IF cmd = VGA_BALL_WRITE_POS /\ r.ret = 0 THEN arg ELSE okPos
             /\ okBg' = IF cmd = VGA_BALL_WRITE_BACKGROUND /\ r.ret = 0 THEN arg ELSE okBg
             /\ UNCHANGED <<misc, kpc>>
        ELSE IF dev.virtbase = "reused"
        THEN /\ dev' = r.k.dev
             /\ regs' = regs
             /\ iolog' = Strayed(r.k.iolog)
             /\ lastCall' = CallRecord(cmd, arg, r)
             /\ okPos' = IF cmd = VGA_BALL_WRITE_POS /\ r.ret = 0 THEN arg ELSE okPos
             /\ okBg' = IF cmd = VGA_BALL_WRITE_BACKGROUND /\ r.ret = 0 THEN arg ELSE okBg
             /\ UNCHANGED <<misc, kpc>>
        ELSE /\ iolog' = <<[r.k.iolog[1] EXCEPT !.op = "oops"]>>
             /\ lastCall' = [cmd |-> cmd, arg |-> arg, ret |-> NoReturn, out |-> NoVal]
             /\ UNCHANGED <<dev, regs, okPos, okBg, misc, kpc>>

(***************************************************************************)
(* Initial values.                                                         *)
(***************************************************************************)
NoCall == [cmd |-> "none", arg |-> NoVal, ret |-> 0, out |-> NoVal]

\* the driver before probe
DriverInit ==
    /\ dev = DevZero
    /\ \E c \in HwResetBg : regs = RegsReset(c)
    /\ misc = FALSE
    /\ kpc = "unloaded"
    /\ iolog = <<>>
    /\ lastCall = NoCall
    /\ okPos = NoVal
    /\ okBg = NoVal

\* the driver after a successful probe
DriverAttached ==
    /\ \E c \in HwResetBg :
         LET k == vga_ball_probe([dev |-> DevZero, regs |-> RegsReset(c), iolog |-> <<>>], "ok")
         IN  dev = k.dev /\ regs = k.regs /\ iolog = k.iolog
    /\ misc = TRUE
    /\ kpc = "attached"
    /\ lastCall = NoCall
    /\ okPos = NoVal
    /\ okBg = NoVal

\* main() and animate_movement() not running
BUF_SIZE == 8           \* sizeof(buf)

\* one input byte; late marks a byte typed while a session was running
Byte(b, late) == [b |-> b, late |-> late]

\* char buf[8]: the array outlives the loop iterations, so the bytes beyond
\* the n just read are those of earlier reads
BufInit == [j \in 1..BUF_SIZE |-> Byte(0, FALSE)]

CtlIdle ==
    /\ pc = "none"
    /\ vga_ball_fd = -1
    /\ pos = Position(0, 0)
    /\ base_y = 0
    /\ animation_in_progress = 0
    /\ buf = BufInit /\ n = 0 /\ i = 0
    /\ exit_status = -1
    /\ evlog = <<>>
    /\ carry = <<>>

AnimIdle ==
    /\ start_y = 0 /\ target_y = 0 /\ start_time = 0
    /\ elapsed_time = 0 /\ current_y = 0

EnvIdle ==
    /\ now = 0 /\ ttyq = <<>> /\ typed = 0 /\ faults = 0

(***************************************************************************)
(* SpecDriver: probe, then any client issuing any ioctl.                   *)
(***************************************************************************)
PosVals == {Position(x, y) : x \in {16, 320}, y \in {-1, 240, 336}}
ColorVals == {black, beige, Color(255, 0, 128)}

Probe ==
    /\ ~misc
    /\ \E outcome \in ProbeOutcomes :
         LET k == vga_ball_probe(KState, outcome)
         IN  /\ dev' = k.dev /\ regs' = k.regs /\ iolog' = k.iolog
             /\ misc' = (outcome = "ok")
             /\ kpc' = IF outcome = "ok" THEN "attached" ELSE "unloaded"
    /\ UNCHANGED <<lastCall, okPos, okBg, ctlVars, animVars, envVars>>

ClientWriteBackground ==
    /\ misc
    /\ \E c \in ColorVals, fault \in BOOLEAN : DoIoctl(VGA_BALL_WRITE_BACKGROUND, c, fault)
    /\ UNCHANGED <<ctlVars, animVars, envVars>>

ClientReadBackground ==
    /\ misc
    /\ \E fault \in BOOLEAN : DoIoctl(VGA_BALL_READ_BACKGROUND, NoVal, fault)
    /\ UNCHANGED <<ctlVars, animVars, envVars>>

ClientWritePos ==
    /\ misc
    /\ \E p \in PosVals, fault \in BOOLEAN : DoIoctl(VGA_BALL_WRITE_POS, p, fault)
    /\ UNCHANGED <<ctlVars, animVars, envVars>>

ClientReadPos ==
    /\ misc
    /\ \E fault \in BOOLEAN : DoIoctl(VGA_BALL_READ_POS, NoVal, fault)
    /\ UNCHANGED <<ctlVars, animVars, envVars>>

ClientOtherCmd ==
    /\ misc
    /\ \E cmd \in OtherCmds : DoIoctl(cmd, NoVal, FALSE)
    /\ UNCHANGED <<ctlVars, animVars, envVars>>

InitDriver == DriverInit /\ CtlIdle /\ AnimIdle /\ EnvIdle

NextDriver ==
    \/ Probe
    \/ ClientWriteBackground
    \/ ClientReadBackground
    \/ ClientWritePos
    \/ ClientReadPos
    \/ ClientOtherCmd

SpecDriver == InitDriver /\ [][NextDriver]_vars

(***************************************************************************)
(* SpecLife: vga_ball_probe and vga_ball_remove statement by statement,    *)
(* with a client issuing ioctls on /dev/vga_ball whenever the misc device  *)
(* is registered.                                                          *)
(***************************************************************************)
\* the statement of probe that has just run failed: kpc' after its cleanup
ProbeFailed == kpc' = "failed"

\* misc_register(&vga_ball_misc_device); on failure return ret
ProbeRegister ==
    /\ kpc = "unloaded"
    /\ \E ok \in BOOLEAN :
         IF ok THEN misc' = TRUE /\ kpc' = "registered"
               ELSE misc' = misc /\ ProbeFailed
    /\ UNCHANGED <<dev, regs, iolog, lastCall, okPos, okBg, ctlVars, animVars, envVars>>

\* of_address_to_resource(); on failure goto fail_register: misc_deregister
ProbeResource ==
    /\ kpc = "registered"
    /\ \E ok \in BOOLEAN :
         IF ok THEN misc' = misc /\ kpc' = "resource"
               ELSE misc' = FALSE /\ ProbeFailed
    /\ UNCHANGED <<dev, regs, iolog, lastCall, okPos, okBg, ctlVars, animVars, envVars>>

\* request_mem_region(); on NULL goto fail_register: misc_deregister
ProbeRegion ==
    /\ kpc = "resource"
    /\ \E ok \in BOOLEAN :
         IF ok THEN misc' = misc /\ kpc' = "region"
               ELSE misc' = FALSE /\ ProbeFailed
    /\ UNCHANGED <<dev, regs, iolog, lastCall, okPos, okBg, ctlVars, animVars, envVars>>

\* dev.virtbase = of_iomap(); on NULL goto fail_mem_region:
\* release_mem_region, misc_deregister
ProbeMap ==
    /\ kpc = "region"
    /\ \E ok \in BOOLEAN :
         IF ok THEN /\ dev' = [dev EXCEPT !.virtbase = "mapped"]
                    /\ misc' = misc /\ kpc' = "iomapped"
               ELSE /\ dev' = dev
                    /\ misc' = FALSE /\ ProbeFailed
    /\ UNCHANGED <<regs, iolog, lastCall, okPos, okBg, ctlVars, animVars, envVars>>

\* write_background(&beige); dev.position.xcoor = 320; ycoor = 240; return 0
ProbeInit ==
    /\ kpc = "iomapped"
    /\ LET k == write_background([KState EXCEPT !.iolog = <<>>], beige)
       IN  /\ dev' = [k.dev EXCEPT !.position = Position(320, 240)]
           /\ regs' = k.regs
           /\ iolog' = k.iolog
    /\ kpc' = "attached"
    /\ UNCHANGED <<misc, lastCall, okPos, okBg, ctlVars, animVars, envVars>>

\* iounmap(dev.virtbase): dev.virtbase keeps the address; its range is left
\* unmapped or is taken over by another mapping
RemoveUnmap ==
    /\ kpc = "attached"
    /\ \E v \in {"unmapped", "reused"} : dev' = [dev EXCEPT !.virtbase = v]
    /\ kpc' = "iounmapped"
    /\ UNCHANGED <<regs, misc, iolog, lastCall, okPos, okBg, ctlVars, animVars, envVars>>

\* release_mem_region(dev.res.start, resource_size(&dev.res))
RemoveRelease ==
    /\ kpc = "iounmapped"
    /\ kpc' = "released"
    /\ UNCHANGED <<dev, regs, misc, iolog, lastCall, okPos, okBg, ctlVars, animVars,
                   envVars>>

\* misc_deregister(&vga_ball_misc_device); return 0
RemoveDeregister ==
    /\ kpc = "released"
    /\ misc' = FALSE
    /\ kpc' = "removed"
    /\ UNCHANGED <<dev, regs, iolog, lastCall, okPos, okBg, ctlVars, animVars, envVars>>

NextLife ==
    \/ ProbeRegister
    \/ ProbeResource
    \/ ProbeRegion
    \/ ProbeMap
    \/ ProbeInit
    \/ RemoveUnmap
    \/ RemoveRelease
    \/ RemoveDeregister
    \/ ClientWriteBackground
    \/ ClientReadBackground
    \/ ClientWritePos
    \/ ClientReadPos
    \/ ClientOtherCmd

SpecLife == InitDriver /\ [][NextLife]_vars

(***************************************************************************)
(* Controller (hello.c): constants and helpers.                            *)
(***************************************************************************)
ESC == 27               \* 0x1B
LBRACKET == 91          \* 0x5B
CODE_UP == 65           \* 0x41 'A'
CODE_DOWN == 66         \* 0x42 'B'
CHAR_q == 113
CHAR_Q == 81
EXIT_FAILURE == 1
FD == 3                 \* the descriptor open() returns

\* int x = 16; int y = 480 - (4 * 32) - 16;
InitX == 16
InitY == 480 - (4 * 32) - 16

\* animation_duration = 1.0 second, in ticks
Duration == 2 * TicksPerHalf

Min(a, b) == IF a < b THEN a ELSE b

\* the C conversion (int)(a / b) of a real quotient, b > 0: toward zero
TruncDiv(a, b) == IF a >= 0 THEN a \div b ELSE -((-a) \div b)

\* the conversion rounding down instead of toward zero
InterpolateFloor(a, b, e) == a + (((b - a) * e) \div TicksPerHalf)

\* a + (int)((b - a) * progress) with progress = e / (animation_duration / 2)
Interpolate(a, b, e) == a + TruncDiv((b - a) * e, TicksPerHalf)

\* the frame's current_y for elapsed time e < Duration (hello.c 49-56)
FrameY(sy, ty, e) ==
    IF e < TicksPerHalf
    THEN Interpolate(sy, ty, e)
    ELSE Interpolate(ty, sy, e - TicksPerHalf)

\* a typed byte; `late` records that it was typed while an animation ran
BufAt(k) == buf[k + 1].b

\* the keys a user presses, as the bytes the terminal delivers
KeyUp == <<ESC, LBRACKET, CODE_UP>>
KeyDown == <<ESC, LBRACKET, CODE_DOWN>>
Keys == {KeyUp, KeyDown, <<CHAR_q>>, <<CHAR_Q>>,
         <<ESC, LBRACKET, CHAR_q>>}

FaultChoices == IF faults < MaxFaults THEN {FALSE, TRUE} ELSE {FALSE}

\* ioctl(vga_ball_fd, cmd, arg) from the controller, with its fault budget
CtlIoctl(cmd, arg) ==
    \E fault \in FaultChoices :
        /\ DoIoctl(cmd, arg, fault)
        /\ faults' = IF fault THEN faults + 1 ELSE faults

\* set_background_color(color): the ioctl; a failure is only reported
set_background_color(color) == CtlIoctl(VGA_BALL_WRITE_BACKGROUND, color)

\* set_pos(p): the ioctl; a failure is only reported
set_pos(p) == CtlIoctl(VGA_BALL_WRITE_POS, p)

(***************************************************************************)
(* animate_movement(pos, start_y, target_y)                                *)
(***************************************************************************)
\* entry: the arguments and clock_gettime(CLOCK_MONOTONIC, &start_time)
animate_enter(sy, ty) ==
    /\ start_y' = sy
    /\ target_y' = ty
    /\ start_time' = now
    /\ elapsed_time' = -1
    /\ current_y' = -1

\* the loop ending without the final assignment pos->ycoor = start_y
AnimExitStale(e) ==
    /\ current_y' = start_y
    /\ pos' = pos
    /\ set_pos(pos')
    /\ pc' = "anim_ret"

\* elapsed >= duration: break, then the final write of start_y and return
AnimExit(e) ==
    /\ current_y' = start_y
    /\ pos' = [pos EXCEPT !.ycoor = start_y]
    /\ set_pos(pos')
    /\ pc' = "anim_ret"

\* the loop left at half of the duration
AnimDoneEarly(e) == e >= TicksPerHalf

\* the test that ends the loop (the final else of hello.c 49-61)
AnimDone(e) == e >= Duration

\* one iteration of the do-while loop, from its clock sample
\* the difference taken the wrong way round: start_time - current_time
ElapsedSwapped == start_time - now

\* elapsed_time = current_time - start_time, from clock_gettime
Elapsed == now - start_time

AnimFrame ==
    /\ pc = "anim_loop"
    /\ LET e == Elapsed
       IN  /\ elapsed_time' = e
           /\ IF AnimDone(e)
              THEN AnimExit(e)
              ELSE /\ current_y' = FrameY(start_y, target_y, e)
                   /\ pos' = [pos EXCEPT !.ycoor = current_y']
                   /\ set_pos(pos')
                   /\ pc' = "anim_loop"
    /\ UNCHANGED <<misc, kpc, vga_ball_fd, base_y, animation_in_progress, buf, n, i,
                   exit_status, evlog, carry, start_y, target_y, start_time,
                   now, ttyq, typed>>

\* the monotonic clock advances while the animation runs
Tick ==
    /\ pc = "anim_loop"
    /\ now - start_time < Duration + MaxOver
    /\ now' = now + 1
    /\ UNCHANGED <<drvVars, ctlVars, animVars, ttyq, typed, faults>>

(***************************************************************************)
(* SpecAnim: one call animate_movement(&pos, start_y, target_y).           *)
(***************************************************************************)
AnimInputs == {<<304, 272>>, <<336, 304>>, <<336, 368>>, <<10, -22>>, <<100, 100>>}

InitAnim ==
    /\ DriverAttached
    /\ vga_ball_fd = FD
    /\ \E a \in AnimInputs :
         /\ start_y = a[1] /\ target_y = a[2]
         /\ pos = Position(InitX, a[1])
         /\ base_y = a[1]
    /\ pc = "anim_loop"
    /\ animation_in_progress = 1
    /\ buf = BufInit /\ n = 0 /\ i = 0
    /\ exit_status = -1
    /\ evlog = <<>>
    /\ carry = <<>>
    /\ start_time = 0 /\ elapsed_time = -1 /\ current_y = -1
    /\ EnvIdle

NextAnim ==
    \/ AnimFrame
    \/ Tick

SpecAnim == InitAnim /\ [][NextAnim]_vars

(***************************************************************************)
(* main() of hello.c                                                       *)
(***************************************************************************)
\* open("/dev/vga_ball", O_RDWR)
Open ==
    /\ pc = "open"
    /\ \E ok \in BOOLEAN :
         IF ok /\ misc
         THEN /\ vga_ball_fd' = FD
              /\ pc' = "set_background"
              /\ UNCHANGED exit_status
         ELSE /\ exit_status' = EXIT_FAILURE
              /\ pc' = "done"
              /\ UNCHANGED vga_ball_fd
    /\ UNCHANGED <<drvVars, pos, base_y, animation_in_progress, buf, n, i, evlog, carry,
                   animVars, envVars>>

\* set_background_color(&black)
SetBackground ==
    /\ pc = "set_background"
    /\ set_background_color(black)
    /\ pc' = "set_pos"
    /\ UNCHANGED <<vga_ball_fd, pos, base_y, animation_in_progress, buf, n, i,
                   exit_status, evlog, carry, animVars, now, ttyq, typed>>

\* pos.xcoor = x; pos.ycoor = y; set_pos(&pos)
InitPos ==
    /\ pc = "set_pos"
    /\ pos' = Position(InitX, InitY)
    /\ set_pos(pos')
    /\ pc' = "tcgetattr"
    /\ UNCHANGED <<vga_ball_fd, base_y, animation_in_progress, buf, n, i,
                   exit_status, evlog, carry, animVars, now, ttyq, typed>>

\* tcgetattr(STDIN_FILENO, &orig_tio), then tcsetattr(..., &raw_tio); either
\* failing closes the device and returns EXIT_FAILURE
TermSetup ==
    /\ pc \in {"tcgetattr", "tcsetattr"}
    /\ \E ok \in BOOLEAN :
         IF ok
         THEN /\ pc' = IF pc = "tcgetattr" THEN "tcsetattr" ELSE "poll"
              /\ UNCHANGED <<vga_ball_fd, exit_status>>
         ELSE /\ vga_ball_fd' = -1
              /\ exit_status' = EXIT_FAILURE
              /\ pc' = "done"
    /\ UNCHANGED <<drvVars, pos, base_y, animation_in_progress, buf, n, i, evlog, carry,
                   animVars, envVars>>

\* poll() returns an error: break
PollFail ==
    /\ pc = "poll"
    /\ pc' = "exit"
    /\ UNCHANGED <<drvVars, vga_ball_fd, pos, base_y, animation_in_progress,
                   buf, n, i, exit_status, evlog, carry, animVars, envVars>>

\* POLLIN, and read() fails: EAGAIN continues the loop, anything else breaks
ReadFail ==
    /\ pc = "poll"
    /\ ttyq # <<>>
    /\ n' = -1
    /\ \E eagain \in BOOLEAN : pc' = IF eagain THEN "poll" ELSE "exit"
    /\ UNCHANGED <<drvVars, vga_ball_fd, pos, base_y, animation_in_progress,
                   buf, i, exit_status, evlog, carry, animVars, envVars>>

\* POLLIN, and read(STDIN_FILENO, buf, sizeof(buf)) returns k bytes: any
\* non-empty prefix of what was typed, the rest still being on its way; the
\* for loop starts only if no animation is flagged
\* the proper prefix of an escape sequence that ends the len bytes of b
PartialEscape(b, len) ==
    IF len >= 1 /\ b[len].b = ESC THEN <<ESC>>
    ELSE IF len >= 2 /\ b[len - 1].b = ESC /\ b[len].b = LBRACKET THEN <<ESC, LBRACKET>>
    ELSE <<>>

PollRead ==
    /\ pc = "poll"
    /\ ttyq # <<>>
    /\ \E k \in 1..Min(BUF_SIZE, Len(ttyq)) :
         /\ buf' = SubSeq(ttyq, 1, k) \o SubSeq(buf, k + 1, BUF_SIZE)
         /\ n' = k
         /\ ttyq' = SubSeq(ttyq, k + 1, Len(ttyq))
    /\ carry' = PartialEscape(buf, n)
    /\ IF animation_in_progress = 0
       THEN i' = 0 /\ evlog' = <<>> /\ pc' = "decode"
       ELSE UNCHANGED <<i, evlog, pc>>
    /\ UNCHANGED <<drvVars, vga_ball_fd, pos, base_y, animation_in_progress,
                   exit_status, animVars, now, typed, faults>>

\* the for loop's ++i and test i < n
LoopTo(j) ==
    /\ i' = j
    /\ pc' = IF j < n THEN "decode" ELSE "poll"

Event(at, ev) == [at |-> at, ev |-> ev]

\* the escape sequence consumed by ++i alone: no i += 2
SkipSequenceShort(at) == LoopTo(at + 1)

\* i += 2 after an escape sequence, then the loop's ++i
SkipSequence(at) == LoopTo(at + 3)

\* the quit byte only noted: the for loop goes on with the next byte
DecodeQuitContinue(at) == LoopTo(at + 1)

\* 'q' or 'Q': goto EXIT_LOOP, leaving the for loop at once
DecodeQuit(at) == pc' = "exit" /\ UNCHANGED i

\* the bound taken from the size of the array instead of the bytes read
IsSequenceWholeBuffer(at) ==
    at <= BUF_SIZE - 3 /\ BufAt(at) = ESC /\ BufAt(at + 1) = LBRACKET

\* i <= n - 3 && buf[i] == 0x1B && buf[i+1] == 0x5B
IsSequence(at) == at <= n - 3 /\ BufAt(at) = ESC /\ BufAt(at + 1) = LBRACKET

\* the jump taken as 32 tiles of 32 pixels
JumpTargetTiles == base_y - 32 * 32

\* animate_movement(..., base_y, base_y - 32, ...): up is a smaller Y
JumpTarget == base_y - 32

\* animate_movement(..., base_y, base_y + 32, ...)
DuckTarget == base_y + 32

\* one iteration of the for loop over buf, up to the call of animate_movement
DecodeByte ==
    /\ pc = "decode"
    /\ i < n
    /\ LET c == BufAt(i)
       IN  IF c = ESC
           THEN IF IsSequence(i)
                THEN LET code == BufAt(i + 2)
                     IN  IF code = CODE_UP
                         THEN /\ animation_in_progress' = 1
                              /\ animate_enter(base_y, JumpTarget)
                              /\ evlog' = Append(evlog, Event(i, "ARROW_UP"))
                              /\ pc' = "anim_loop"
                              /\ UNCHANGED i
                         ELSE IF code = CODE_DOWN
                         THEN /\ animation_in_progress' = 1
                              /\ animate_enter(base_y, DuckTarget)
                              /\ evlog' = Append(evlog, Event(i, "ARROW_DOWN"))
                              /\ pc' = "anim_loop"
                              /\ UNCHANGED i
                         ELSE /\ evlog' = Append(evlog, Event(i, "NONE"))
                              /\ SkipSequence(i)
                              /\ UNCHANGED <<animation_in_progress, animVars>>
                ELSE /\ evlog' = Append(evlog, Event(i, "NONE"))
                     /\ LoopTo(i + 1)
                     /\ UNCHANGED <<animation_in_progress, animVars>>
           ELSE IF c = CHAR_q \/ c = CHAR_Q
           THEN /\ evlog' = Append(evlog, Event(i, "QUIT"))
                /\ DecodeQuit(i)
                /\ UNCHANGED <<animation_in_progress, animVars>>
           ELSE /\ evlog' = Append(evlog, Event(i, "NONE"))
                /\ LoopTo(i + 1)
                /\ UNCHANGED <<animation_in_progress, animVars>>
    /\ UNCHANGED <<drvVars, vga_ball_fd, pos, base_y, buf, n, exit_status, carry,
                   envVars>>

\* animate_movement has returned, but the flag is left at 1
AnimReturnFlagKept ==
    /\ pc = "anim_ret"
    /\ SkipSequence(i)
    /\ UNCHANGED <<drvVars, vga_ball_fd, pos, base_y, animation_in_progress, buf, n,
                   exit_status, evlog, carry, animVars, envVars>>

\* animate_movement has returned: animation_in_progress = 0; i += 2; ++i
AnimReturn ==
    /\ pc = "anim_ret"
    /\ animation_in_progress' = 0
    /\ SkipSequence(i)
    /\ UNCHANGED <<drvVars, vga_ball_fd, pos, base_y, buf, n, exit_status, evlog, carry,
                   animVars, envVars>>

\* EXIT_LOOP: restore the terminal, close(vga_ball_fd), return 0
ExitLoop ==
    /\ pc = "exit"
    /\ vga_ball_fd' = -1
    /\ exit_status' = 0
    /\ pc' = "done"
    /\ UNCHANGED <<drvVars, pos, base_y, animation_in_progress, buf, n, i, evlog, carry,
                   animVars, envVars>>

\* the user presses a key; its bytes queue in the terminal until read.  A key
\* pressed while main() is between two reads is taken at the next poll.
Type ==
    /\ pc \in {"poll", "anim_loop"}
    /\ typed < MaxKeys
    /\ \E key \in Keys :
         ttyq' = ttyq \o [j \in 1..Len(key) |-> Byte(key[j], animation_in_progress = 1)]
    /\ typed' = typed + 1
    /\ UNCHANGED <<drvVars, ctlVars, animVars, now, faults>>

Init ==
    /\ DriverAttached
    /\ pc = "open"
    /\ vga_ball_fd = -1
    /\ pos = Position(0, 0)
    /\ base_y = InitY
    /\ animation_in_progress = 0
    /\ buf = BufInit /\ n = 0 /\ i = 0
    /\ exit_status = -1
    /\ evlog = <<>>
    /\ carry = <<>>
    /\ AnimIdle
    /\ EnvIdle

Next ==
    \/ Open
    \/ SetBackground
    \/ InitPos
    \/ TermSetup
    \/ PollFail
    \/ ReadFail
    \/ PollRead
    \/ DecodeByte
    \/ AnimFrame
    \/ AnimReturn
    \/ ExitLoop
    \/ Tick
    \/ Type

Spec == Init /\ [][Next]_vars

(***************************************************************************)
(* SpecAnimLive: the same call, followed by the return to main.  The loop  *)
(* of animate_movement runs without blocking, so its next step is always   *)
(* taken, and CLOCK_MONOTONIC advances while it runs.                      *)
(***************************************************************************)
NextAnimLive ==
    \/ AnimFrame
    \/ Tick
    \/ AnimReturn

SpecAnimLive ==
    /\ InitAnim
    /\ [][NextAnimLive]_vars
    /\ WF_vars(AnimFrame)
    /\ WF_vars(Tick)
    /\ WF_vars(AnimReturn)

(***************************************************************************)
(* SpecLive: the controller while poll() and read() do not fail and no     *)
(* user copy faults (set_pos ignores the result of its ioctl, so a fault   *)
(* does not change what main does next).  main is one sequential thread,   *)
(* so each of its steps is eventually taken once it is possible, and       *)
(* CLOCK_MONOTONIC advances while a session is running.                    *)
(***************************************************************************)
\* main at its first statement, with the fault budget already spent
InitLive ==
    /\ DriverAttached
    /\ pc = "open"
    /\ vga_ball_fd = -1
    /\ pos = Position(0, 0)
    /\ base_y = InitY
    /\ animation_in_progress = 0
    /\ buf = BufInit /\ n = 0 /\ i = 0
    /\ exit_status = -1
    /\ evlog = <<>>
    /\ carry = <<>>
    /\ AnimIdle
    /\ now = 0 /\ ttyq = <<>> /\ typed = 0 /\ faults = MaxFaults

NextLive ==
    \/ Open
    \/ SetBackground
    \/ InitPos
    \/ TermSetup
    \/ PollRead
    \/ DecodeByte
    \/ AnimFrame
    \/ AnimReturn
    \/ ExitLoop
    \/ Tick
    \/ Type

SpecLive ==
    /\ InitLive
    /\ [][NextLive]_vars
    /\ WF_vars(PollRead)
    /\ WF_vars(DecodeByte)
    /\ WF_vars(AnimFrame)
    /\ WF_vars(AnimReturn)
    /\ WF_vars(ExitLoop)
    /\ WF_vars(Tick)

(***************************************************************************)
(* Claims about the driver (SpecDriver).                                   *)
(***************************************************************************)
Returned0(cmd) == lastCall.cmd = cmd /\ lastCall.ret = 0

\* C1: once a WRITE_POS has succeeded, the Position mirror is the argument of
\* the most recent successful WRITE_POS, and every READ_POS that succeeds
\* returns exactly that argument.
C1_ReadPosReturnsLastWritePos ==
    okPos # NoVal =>
        /\ dev.position = okPos
        /\ Returned0(VGA_BALL_READ_POS) => lastCall.out = okPos

\* READ_POS has returned a written position with a negative Y
C1_Witness ==
    /\ Returned0(VGA_BALL_READ_POS)
    /\ okPos = Position(16, -1)
    /\ lastCall.out = Position(16, -1)

\* C2: once a WRITE_BACKGROUND has succeeded, the Color mirror is the argument
\* of the most recent successful WRITE_BACKGROUND, and every READ_BACKGROUND
\* that succeeds returns exactly that argument.
C2_ReadBackgroundReturnsLastWrite ==
    okBg # NoVal =>
        /\ dev.background = okBg
        /\ Returned0(VGA_BALL_READ_BACKGROUND) => lastCall.out = okBg

C2_Witness ==
    /\ Returned0(VGA_BALL_READ_BACKGROUND)
    /\ okBg = Color(255, 0, 128)
    /\ lastCall.out = Color(255, 0, 128)

\* what a command did, as the sequence of <<operation, register offset>>
Steps(log) == [j \in 1..Len(log) |-> <<log[j].op, log[j].off>>]

\* C3: a successful WRITE_POS does exactly: write X, write Y, store the
\* Position mirror; a successful WRITE_BACKGROUND does exactly: write red,
\* write green, write blue, store the Color mirror -- in that order.
C3_RegisterWriteOrder ==
    /\ Returned0(VGA_BALL_WRITE_POS) =>
          Steps(iolog) = << <<"iowrite32", BALL_XCOOR>>, <<"iowrite32", BALL_YCOOR>>,
                            <<"dev.position", -1>> >>
    /\ Returned0(VGA_BALL_WRITE_BACKGROUND) =>
          Steps(iolog) = << <<"iowrite32", BG_RED>>, <<"iowrite32", BG_GREEN>>,
                            <<"iowrite32", BG_BLUE>>, <<"dev.background", -1>> >>

C3_Witness ==
    /\ Returned0(VGA_BALL_WRITE_POS)
    /\ Len(iolog) = 3
    /\ iolog[1].val = u32(lastCall.arg.xcoor)
    /\ iolog[2].val = u32(lastCall.arg.ycoor)
    /\ lastCall.arg.xcoor # lastCall.arg.ycoor

\* C4: an ioctl with a command code outside the four defined ones returns
\* -EINVAL, writes no register and changes neither mirror.
C4_UnknownCommandRejected ==
    /\ [](lastCall.cmd \in OtherCmds => lastCall.ret = -EINVAL /\ iolog = <<>>)
    /\ [][(lastCall' # lastCall /\ lastCall'.cmd \in OtherCmds)
            => (dev' = dev /\ regs' = regs)]_vars

C4_Witness ==
    /\ lastCall.cmd \in OtherCmds
    /\ lastCall.ret = -EINVAL
    /\ okPos # NoVal
    /\ okBg # NoVal

(***************************************************************************)
(* Claims about the controller (Spec) and the animation (SpecAnim).        *)
(***************************************************************************)
WriteCmds == {VGA_BALL_WRITE_BACKGROUND, VGA_BALL_WRITE_POS}
Animating == animation_in_progress = 1
Abs(x) == IF x >= 0 THEN x ELSE -x

\* C5: a step in which a WRITE_BACKGROUND or WRITE_POS fails (a fault is
\* injected into the transfer of its payload) returns -EACCES, writes no
\* register and changes neither mirror, and the controller goes on: it does
\* not exit, and an animation stays in its loop (or returns normally once its
\* duration has elapsed).
C5_FailedWriteHasNoEffect ==
    [][(/\ faults' # faults
        /\ lastCall'.cmd \in WriteCmds
        /\ lastCall'.ret # 0)
       => /\ lastCall'.ret = -EACCES
          /\ regs' = regs
          /\ dev' = dev
          /\ iolog' = <<>>
          /\ pc' \notin {"exit", "done"}
          /\ exit_status' = -1
          /\ pc = "anim_loop" =>
                pc' = IF elapsed_time' >= Duration THEN "anim_ret" ELSE "anim_loop"]_vars

\* a frame's WRITE_POS has failed in mid-animation: the mirror still holds an
\* older position and the loop goes on
C5_Witness ==
    /\ pc = "anim_loop"
    /\ elapsed_time > 0
    /\ lastCall.cmd = VGA_BALL_WRITE_POS
    /\ lastCall.ret = -EACCES
    /\ dev.position # lastCall.arg
    /\ regs[BALL_YCOOR] # u32(lastCall.arg.ycoor)

\* C6: no animation session is started by an arrow sequence whose bytes were
\* all typed while an animation was running.
C6_MissedInputNeverStartsSession ==
    pc \in {"anim_loop", "anim_ret"} =>
        ~(buf[i + 1].late /\ buf[i + 2].late /\ buf[i + 3].late)

\* C7: sessions do not nest (a session starts only from the decoder with no
\* session active), ANIMATING is left only by completion (the duration has
\* elapsed and the final WRITE_POS of the base position was issued), and the
\* program neither exits nor terminates while a session is active.
C7_AnimationStateMachine ==
    /\ [](Animating <=> pc \in {"anim_loop", "anim_ret"})
    /\ [](pc \in {"exit", "done"} => ~Animating)
    /\ [][(pc # "anim_loop" /\ pc' = "anim_loop") => (pc = "decode" /\ ~Animating)]_vars
    /\ [][(pc = "anim_loop" /\ pc' # "anim_loop")
            => /\ pc' = "anim_ret"
               /\ elapsed_time' >= Duration
               /\ lastCall'.cmd = VGA_BALL_WRITE_POS
               /\ lastCall'.arg = Position(InitX, base_y)]_vars
    /\ [][(Animating /\ ~Animating') => (pc = "anim_ret" /\ pc' \in {"decode", "poll"})]_vars

\* a session has completed and the controller is idle again, with a quit key
\* that was typed during the session still unread
C7_Witness ==
    /\ pc = "poll"
    /\ ~Animating
    /\ elapsed_time >= Duration
    /\ ttyq # <<>>
    /\ ttyq[1].b = CHAR_q
    /\ ttyq[1].late

\* C8: when animate_movement returns, the last WRITE_POS it issued carries
\* Y = start_y (and the caller's X), and pos.ycoor = start_y.
C8_FinalWriteIsBase ==
    pc = "anim_ret" =>
        /\ lastCall.cmd = VGA_BALL_WRITE_POS
        /\ lastCall.arg = Position(pos.xcoor, start_y)
        /\ pos.ycoor = start_y

\* the final write of the base failed after a frame at the extreme succeeded
C8_Witness ==
    /\ pc = "anim_ret"
    /\ start_y = 304 /\ target_y = 272
    /\ lastCall.ret # 0
    /\ lastCall.arg.ycoor = 304
    /\ dev.position.ycoor = 272

\* y is `from` moved toward `to` by the real amount |to - from| * t / TicksPerHalf
\* cut to its integer part
IsTruncatedInterpolation(y, from, to, t) ==
    /\ (y - from) * (to - from) >= 0
    /\ Abs(y - from) * TicksPerHalf <= Abs(to - from) * t
    /\ Abs(to - from) * t < (Abs(y - from) + 1) * TicksPerHalf

\* C9: the Y of every frame written inside the loop is the triangular
\* interpolation of the elapsed time with the interpolated displacement cut
\* to its integer part: from start_y toward target_y in the first half, from
\* target_y back toward start_y in the second half.  For start_y = 304 and
\* target_y = 272 the frame at elapsed 0 is 304 and the frame at half of the
\* duration is within 1 of 272.
C9_FrameIsTriangularInterpolation ==
    (pc = "anim_loop" /\ elapsed_time >= 0) =>
        /\ lastCall.cmd = VGA_BALL_WRITE_POS
        /\ lastCall.arg.ycoor = current_y
        /\ elapsed_time < Duration
        /\ IF elapsed_time < TicksPerHalf
           THEN IsTruncatedInterpolation(current_y, start_y, target_y, elapsed_time)
           ELSE IsTruncatedInterpolation(current_y, target_y, start_y,
                                         elapsed_time - TicksPerHalf)
        /\ (start_y = 304 /\ target_y = 272) =>
              /\ elapsed_time = 0 => current_y = 304
              /\ elapsed_time = TicksPerHalf => Abs(current_y - 272) <= 1

\* a frame of the jump from 304 whose displacement is not a whole number
C9_Witness ==
    /\ pc = "anim_loop"
    /\ start_y = 304 /\ target_y = 272
    /\ elapsed_time = 1
    /\ lastCall.arg.ycoor = 304 - ((32 * 1) \div TicksPerHalf)
    /\ (32 * 1) % TicksPerHalf # 0

\* the event the third byte of an escape sequence selects
EventOfCode(code) ==
    IF code = CODE_UP THEN "ARROW_UP" ELSE IF code = CODE_DOWN THEN "ARROW_DOWN" ELSE "NONE"

\* C10: decoding starts at byte 0, and a decoder step at ESC [ <code> inside
\* the buffer yields ARROW_UP for 0x41, ARROW_DOWN for 0x42 and no event for
\* any other code (never QUIT), is the only step at that byte, and is
\* followed by the step 3 bytes on: the second and third byte are never
\* decoded on their own.  A session runs exactly for the arrow just decoded.
C10_ArrowDecoding ==
    /\ \A j \in 1..Len(evlog) :
         LET at == evlog[j].at
         IN  /\ j = 1 => at = 0
             /\ j > 1 => at > evlog[j - 1].at
             /\ (at <= n - 3 /\ BufAt(at) = ESC /\ BufAt(at + 1) = LBRACKET) =>
                   /\ evlog[j].ev = EventOfCode(BufAt(at + 2))
                   /\ j < Len(evlog) => evlog[j + 1].at = at + 3
                   /\ (j = Len(evlog) /\ pc = "decode") => i = at + 3
    /\ pc \in {"anim_loop", "anim_ret"} =>
         /\ evlog # <<>>
         /\ evlog[Len(evlog)].at = i
         /\ \/ evlog[Len(evlog)].ev = "ARROW_UP" /\ target_y = base_y - 32
            \/ evlog[Len(evlog)].ev = "ARROW_DOWN" /\ target_y = base_y + 32

\* the decoder has gone past ESC [ q without quitting and is at the byte
\* after it
C10_Witness ==
    /\ pc = "decode"
    /\ n >= 4
    /\ BufAt(0) = ESC /\ BufAt(1) = LBRACKET /\ BufAt(2) = CHAR_q
    /\ evlog = <<Event(0, "NONE")>>
    /\ i = 3

\* C11: a decoder step at a standalone 'q' or 'Q' is QUIT and is the last
\* step ever taken: main is at EXIT_LOOP or has returned, the decode index
\* stays on the quit byte, and from then on no animation starts and the
\* driver is not called again.
C11_QuitStopsDecoding ==
    /\ [](\A j \in 1..Len(evlog) :
            /\ (BufAt(evlog[j].at) \in {CHAR_q, CHAR_Q}) => evlog[j].ev = "QUIT"
            /\ evlog[j].ev = "QUIT" =>
                  /\ j = Len(evlog)
                  /\ i = evlog[j].at
                  /\ pc \in {"exit", "done"}
                  /\ ~Animating)
    /\ [][(pc \in {"exit", "done"}) =>
            (/\ pc' \in {"exit", "done"}
             /\ UNCHANGED <<dev, regs, iolog, lastCall, evlog, i, animation_in_progress>>)]_vars

\* main has returned 0 on a quit byte that an Up arrow followed in the same
\* buffer; the arrow was never decoded and no session ever ran
C11_Witness ==
    /\ pc = "done" /\ exit_status = 0
    /\ n = 4
    /\ BufAt(0) = CHAR_q
    /\ BufAt(1) = ESC /\ BufAt(2) = LBRACKET /\ BufAt(3) = CODE_UP
    /\ evlog = <<Event(0, "QUIT")>>
    /\ lastCall.arg = Position(InitX, InitY)
    /\ elapsed_time = 0

\* the current read begins with the last r bytes of an arrow sequence whose
\* first 3 - r bytes ended the previous read
SplitArrow(r) ==
    /\ Len(carry) = 3 - r
    /\ n >= r
    /\ r = 2 => BufAt(0) = LBRACKET
    /\ BufAt(r - 1) \in {CODE_UP, CODE_DOWN}

\* C12: an ESC with fewer than two bytes after it in the bytes just read is
\* decoded as nothing and the decoder moves on by one byte; when an arrow
\* sequence is split over two consecutive reads, the bytes of its second
\* part are each decoded as nothing, and a session running while that
\* buffer is decoded was started by a later sequence of the buffer.
C12_SplitSequenceDropped ==
    /\ \A j \in 1..Len(evlog) :
         LET at == evlog[j].at
         IN  (n >= 1 /\ BufAt(at) = ESC /\ at > n - 3) =>
                /\ evlog[j].ev = "NONE"
                /\ j < Len(evlog) => evlog[j + 1].at = at + 1
                /\ (j = Len(evlog) /\ pc = "decode") => i = at + 1
    /\ \A r \in {1, 2} :
         SplitArrow(r) =>
            /\ \A j \in 1..Len(evlog) :
                  evlog[j].at < r => (evlog[j].ev = "NONE" /\ evlog[j].at = j - 1)
            /\ Animating => i >= r

\* ESC ended one read, [ A came with the next; both bytes were decoded as
\* nothing, the loop is back at poll and no session has ever run
C12_Witness ==
    /\ carry = <<ESC>>
    /\ n = 2 /\ BufAt(0) = LBRACKET /\ BufAt(1) = CODE_UP
    /\ pc = "poll"
    /\ evlog = <<Event(0, "NONE"), Event(1, "NONE")>>
    /\ ~Animating /\ elapsed_time = 0
    /\ lastCall.arg = Position(InitX, InitY)

\* C13: when main returns EXIT_FAILURE (open, tcgetattr or tcsetattr failed),
\* it has issued no ioctl: the driver was never called.
C13_AttachFaultIssuesNoWrite ==
    (pc = "done" /\ exit_status = EXIT_FAILURE) => lastCall = NoCall

\* C14: a successful probe writes the three background registers with
\* beige (0xf9, 0xe4, 0xb7), in that order, and no other register; until a
\* write command has succeeded, VGA_BALL_READ_BACKGROUND returns beige and
\* VGA_BALL_READ_POS returns (320, 240).
C14_AttachDefaults ==
    /\ (misc /\ lastCall = NoCall) =>
          iolog = << LogEntry("iowrite32", BG_RED, u32(249)),
                     LogEntry("iowrite32", BG_GREEN, u32(228)),
                     LogEntry("iowrite32", BG_BLUE, u32(183)),
                     LogEntry("dev.background", -1, u32(0)) >>
    /\ (misc /\ okBg = NoVal) =>
          /\ dev.background = Color(249, 228, 183)
          /\ Returned0(VGA_BALL_READ_BACKGROUND) => lastCall.out = Color(249, 228, 183)
    /\ (misc /\ okPos = NoVal) =>
          /\ dev.position = Position(320, 240)
          /\ Returned0(VGA_BALL_READ_POS) => lastCall.out = Position(320, 240)

\* the position is read back as (320, 240) after the background has been
\* rewritten but no position has
C14_Witness ==
    /\ misc
    /\ Returned0(VGA_BALL_READ_POS)
    /\ lastCall.out = Position(320, 240)
    /\ okPos = NoVal
    /\ okBg # NoVal /\ okBg # beige

ReadCmds == {VGA_BALL_READ_BACKGROUND, VGA_BALL_READ_POS}
PosRegs == {BALL_XCOOR, BALL_YCOOR}
BgRegs == {BG_RED, BG_GREEN, BG_BLUE}

\* the register offsets a command wrote
Written(log) == {log[j].off : j \in {m \in 1..Len(log) : log[m].op = "iowrite32"}}

\* C16: the read commands write no register and change neither mirror, so
\* two VGA_BALL_READ_BACKGROUND in a row return the same colour; a
\* VGA_BALL_WRITE_POS writes no register but +0 and +4 and leaves the colour
\* mirror and the colour registers alone; a VGA_BALL_WRITE_BACKGROUND writes
\* no register but +8, +12, +16 and leaves the position mirror and the
\* position registers alone.
C16_FrameEffects ==
    /\ [](/\ lastCall.cmd \in ReadCmds => iolog = <<>>
          /\ lastCall.cmd = VGA_BALL_WRITE_POS => Written(iolog) \subseteq PosRegs
          /\ Returned0(VGA_BALL_WRITE_POS) => Written(iolog) = PosRegs
          /\ lastCall.cmd = VGA_BALL_WRITE_BACKGROUND => Written(iolog) \subseteq BgRegs
          /\ Returned0(VGA_BALL_WRITE_BACKGROUND) => Written(iolog) = BgRegs)
    /\ [][misc =>
            (/\ lastCall'.cmd \in ReadCmds => (dev' = dev /\ regs' = regs)
             /\ lastCall'.cmd = VGA_BALL_WRITE_POS =>
                   /\ dev'.background = dev.background
                   /\ \A o \in BgRegs : regs'[o] = regs[o]
             /\ lastCall'.cmd = VGA_BALL_WRITE_BACKGROUND =>
                   /\ dev'.position = dev.position
                   /\ \A o \in PosRegs : regs'[o] = regs[o]
             /\ (Returned0(VGA_BALL_READ_BACKGROUND) /\ Returned0(VGA_BALL_READ_BACKGROUND)')
                   => lastCall'.out = lastCall.out)]_vars

\* a colour was written with three distinct components and a position has
\* been written before it: the position mirror and registers kept it
C16_Witness ==
    /\ Returned0(VGA_BALL_WRITE_BACKGROUND)
    /\ okPos # NoVal /\ okPos # Position(320, 240)
    /\ dev.position = okPos
    /\ regs[BALL_YCOOR] = u32(okPos.ycoor)
    /\ dev.background = lastCall.arg
    /\ lastCall.arg.green # 0 /\ u32(lastCall.arg.green) # regs[BALL_YCOOR]

\* main is in its poll/decode loop with no session running
Idle == pc \in {"poll", "decode"} /\ ~Animating

\* C17: base_y keeps its initial value; a session runs from base_y to
\* base_y - 32 (ARROW_UP) or base_y + 32 (ARROW_DOWN); every
\* VGA_BALL_WRITE_POS issued carries X = 16 and a Y within 32 of base_y;
\* whenever main is idle the last command issued is VGA_BALL_WRITE_POS of
\* (16, base_y), and that is the position the driver holds unless a write
\* has failed.
C17_VerticalOnly ==
    /\ base_y = InitY
    /\ pc \in {"anim_loop", "anim_ret"} =>
          /\ start_y = base_y
          /\ evlog[Len(evlog)].ev = "ARROW_UP" => target_y = base_y - 32
          /\ evlog[Len(evlog)].ev = "ARROW_DOWN" => target_y = base_y + 32
          /\ evlog[Len(evlog)].ev \in {"ARROW_UP", "ARROW_DOWN"}
    /\ lastCall.cmd = VGA_BALL_WRITE_POS =>
          /\ lastCall.arg.xcoor = 16
          /\ lastCall.arg.ycoor >= base_y - 32
          /\ lastCall.arg.ycoor <= base_y + 32
    /\ Idle =>
          /\ lastCall.cmd = VGA_BALL_WRITE_POS
          /\ lastCall.arg = Position(16, base_y)
          /\ faults = 0 =>
                /\ dev.position = Position(16, base_y)
                /\ regs[BALL_XCOOR] = u32(16) /\ regs[BALL_YCOOR] = u32(base_y)

\* idle again after a duck whose frames moved the ball below base_y
C17_Witness ==
    /\ Idle /\ pc = "poll"
    /\ elapsed_time >= Duration
    /\ target_y = base_y + 32
    /\ current_y = base_y
    /\ faults = 0
    /\ dev.position = Position(16, 336)

\* a 'q' or 'Q' typed during a session waits in the terminal queue, and is
\* not the third byte of an escape sequence waiting with it
LateQuitPending ==
    \E j \in 1..Len(ttyq) :
        /\ ttyq[j].late
        /\ ttyq[j].b \in {CHAR_q, CHAR_Q}
        /\ ~(j >= 3 /\ ttyq[j - 2].b = ESC /\ ttyq[j - 1].b = LBRACKET)

\* main has returned 0 after decoding a quit byte
QuitDecoded ==
    /\ pc = "done" /\ exit_status = 0
    /\ evlog # <<>> /\ evlog[Len(evlog)].ev = "QUIT"

\* C15: a quit byte typed while a session runs stays in the terminal queue
\* until it is read, and main then decodes a QUIT and returns 0, provided
\* the clock advances and poll() and read() keep succeeding.
C15_LateQuitStillQuits ==
    /\ LateQuitPending ~> QuitDecoded
    /\ [][(LateQuitPending /\ ttyq' = ttyq) => LateQuitPending']_vars
    /\ [][(LateQuitPending /\ ttyq' # ttyq /\ Len(ttyq') < Len(ttyq)) =>
            (pc = "poll" /\ ~Animating /\ pc' = "decode")]_vars

\* the session has ended, a late 'q' is the whole input waiting, and main
\* is back at poll about to read it
C15_Witness ==
    /\ pc = "poll" /\ ~Animating
    /\ elapsed_time >= Duration
    /\ ttyq = <<Byte(CHAR_q, TRUE)>>

\* C18: a running session ends: main leaves the frame loop and is idle
\* again, provided the clock advances, whether or not its VGA_BALL_WRITE_POS
\* calls fail.
C18_AnimationTerminates ==
    /\ (pc = "anim_loop") ~> (pc = "anim_ret" /\ elapsed_time >= Duration)
    /\ Animating ~> Idle
    /\ [][(pc = "anim_loop" /\ faults' # faults /\ lastCall'.ret # 0) =>
            pc' = IF Elapsed >= Duration THEN "anim_ret" ELSE "anim_loop"]_vars

\* idle again after a session in which a VGA_BALL_WRITE_POS failed
C18_Witness ==
    /\ Idle
    /\ elapsed_time >= Duration
    /\ faults > 0
    /\ lastCall.cmd = VGA_BALL_WRITE_POS /\ lastCall.ret = -EACCES

\* C19: no register write of an ioctl is made through a dev.virtbase that is
\* not mapped at the time: every write a command makes reaches the
\* registers of the device.
C19_WritesOnlyWhileMapped ==
    \A j \in 1..Len(iolog) : iolog[j].op \notin {"oops", "stray"}

====
